---------------------------- MODULE Spec2Model ----------------------------
(***************************************************************************)
(* Email Newsletter Writer: the ten remote procedures of `server`          *)
(* (createCampaign ... listBlocks) over the three tables of db/tables.ts.  *)
(*                                                                         *)
(* A row is a function from the names of its non-NULL columns to their     *)
(* values: an optional column that was inserted as `undefined` is NULL and *)
(* is not in the row's DOMAIN.  An input object is a function from the     *)
(* keys it carries to their values: `input.f !== undefined` is             *)
(* f \in DOMAIN input.                                                     *)
(*                                                                         *)
(* Spec     : every request runs alone (one action per remote procedure).  *)
(* SpecConc : the database round trips of in-flight requests interleave.   *)
(***************************************************************************)
EXTENDS Integers, Sequences, FiniteSets, TLC

VARIABLES
    NewsletterCampaigns,  \* table: set of campaign rows
    NewsletterIssues,     \* table: set of issue rows
    NewsletterBlocks,     \* table: set of block rows
    nextId,               \* crypto.randomUUID(): ordinal of the next id handed out
    clock,                \* new Date(): the next timestamp handed out
    last,                 \* Spec: the latest request that changed a table, and its rows
    req,                  \* SpecConc: the in-flight request of each connection
    lastWrite             \* SpecConc: the answer to the UPDATE/DELETE executed last

vars == <<NewsletterCampaigns, NewsletterIssues, NewsletterBlocks, nextId, clock,
          last, req, lastWrite>>

tables == <<NewsletterCampaigns, NewsletterIssues, NewsletterBlocks>>

(***************************************************************************)
(* Bounds.  Every `new Date()` of a handler returns a later instant; a run *)
(* ends after MaxClock of them (each insert takes one, so MaxClock also    *)
(* bounds the rows).                                                       *)
(***************************************************************************)
MaxClock == 4

Users == {"alice", "bob"}

\* context.locals.user is undefined
NoUser == "anonymous"

Contexts == Users \cup {NoUser}

\* crypto.randomUUID(): the n-th id handed out; never the empty string, never repeated
UUID(n) == "id" \o ToString(n)

(***************************************************************************)
(* Columns (db/tables.ts)                                                  *)
(***************************************************************************)
CampaignMutable ==
    {"name", "description", "audienceDescription", "senderName", "senderEmail",
     "defaultLanguage"}

CampaignOptional == CampaignMutable \ {"name"}

IssueMutable ==
    {"issueNumber", "subjectLine", "preheaderText", "status", "scheduledAt", "sentAt"}

IssueOptional == IssueMutable \ {"subjectLine"}

BlockMutable ==
    {"orderIndex", "blockType", "heading", "body", "ctaLabel", "ctaUrl", "imageUrl",
     "metaJson"}

BlockOptional == BlockMutable \ {"orderIndex"}

(***************************************************************************)
(* SQL statements                                                          *)
(***************************************************************************)
\* .values({...}): the given columns, an `undefined` optional column left NULL
Values(required, input, optional) ==
    [f \in DOMAIN required \cup (DOMAIN input \cap optional) |->
        IF f \in DOMAIN required THEN required[f] ELSE input[f]]

\* .set({...(input.f !== undefined ? {f: input.f} : {}), ...}): the columns to assign
SetClause(input, mutable) == [f \in DOMAIN input \cap mutable |-> input[f]]

\* the row after UPDATE ... SET set
Assign(row, set) ==
    [f \in DOMAIN row \cup DOMAIN set |-> IF f \in DOMAIN set THEN set[f] ELSE row[f]]

\* z.string().min(1) on a required key
NonEmpty(input, f) == f \in DOMAIN input /\ input[f] # ""

(***************************************************************************)
(* What a request returns, and the tables it leaves                        *)
(*   code  : "OK" for { success: true, ... }, else the ActionError's code  *)
(*   rows  : the rows returned; for `const [row] = ... .returning()` the   *)
(*           set is empty when `row` is undefined                          *)
(*   total : items.length of a list                                        *)
(***************************************************************************)
Outcome(code, rows, total, c, i, b, id, now) ==
    [code |-> code, rows |-> rows, total |-> total,
     campaigns |-> c, issues |-> i, blocks |-> b, nextId |-> id, clock |-> now]

\* throw new ActionError({ code }): nothing further runs
Throw(code) ==
    Outcome(code, {}, 0, NewsletterCampaigns, NewsletterIssues, NewsletterBlocks,
            nextId, clock)

\* a successful read
Read(rows, total) ==
    Outcome("OK", rows, total, NewsletterCampaigns, NewsletterIssues, NewsletterBlocks,
            nextId, clock)

\* requireUser without its check: every context passes
requireUser_Skipped(context) == TRUE

\* requireUser: does the context carry a user
requireUser(context) == context # NoUser

\* getOwnedCampaign selecting by id alone
getOwnedCampaign_AnyOwner(campaignId, userId) ==
    {c \in NewsletterCampaigns : c.id = campaignId}

\* getOwnedCampaign's SELECT: the rows it finds (none: it throws NOT_FOUND)
getOwnedCampaign(campaignId, userId) ==
    {c \in NewsletterCampaigns : c.id = campaignId /\ c.userId = userId}

\* getOwnedIssue's SELECT
getOwnedIssue(issueId, userId) ==
    {i \in NewsletterIssues : i.id = issueId /\ i.userId = userId}

\* defineAction({ input, handler }): the input is parsed against the schema
\* before the handler is called; a parse failure is an ActionInputError
\* (code BAD_REQUEST) and the handler never runs.
defineAction(schemaOk, handled) == IF ~schemaOk THEN Throw("BAD_REQUEST") ELSE handled

(***************************************************************************)
(* Campaigns                                                               *)
(***************************************************************************)
createCampaignSchema(input) == NonEmpty(input, "name")

createCampaignRow(userId, input) ==
    Values([id |-> UUID(nextId), userId |-> userId, name |-> input.name,
            createdAt |-> clock, updatedAt |-> clock],
           input, CampaignOptional)

createCampaign(context, input) ==
    defineAction(createCampaignSchema(input),
        IF ~requireUser(context) THEN Throw("UNAUTHORIZED")
        ELSE LET row == createCampaignRow(context, input)
             IN  Outcome("OK", {row}, 0, NewsletterCampaigns \cup {row},
                         NewsletterIssues, NewsletterBlocks, nextId + 1, clock + 1))

\* updateCampaign's schema without its .refine(...)
updateCampaignSchema_NoRefine(input) ==
    /\ NonEmpty(input, "id")
    /\ "name" \in DOMAIN input => input.name # ""

updateCampaignSchema(input) ==
    /\ NonEmpty(input, "id")
    /\ "name" \in DOMAIN input => input.name # ""
    /\ DOMAIN input \cap CampaignMutable # {}

\* updateCampaign's UPDATE without its WHERE clause
updateCampaignWhere_AllRows(row, input) == TRUE

\* the UPDATE's WHERE clause
updateCampaignWhere(row, input) == row.id = input.id

updateCampaignSet(input, now) ==
    Assign(SetClause(input, CampaignMutable), [updatedAt |-> now])

updateCampaign(context, input) ==
    defineAction(updateCampaignSchema(input),
        IF ~requireUser(context) THEN Throw("UNAUTHORIZED")
        ELSE IF getOwnedCampaign(input.id, context) = {} THEN Throw("NOT_FOUND")
        ELSE LET hit == {c \in NewsletterCampaigns : updateCampaignWhere(c, input)}
                 new == {Assign(c, updateCampaignSet(input, clock)) : c \in hit}
             IN  Outcome("OK", new, 0, (NewsletterCampaigns \ hit) \cup new,
                         NewsletterIssues, NewsletterBlocks, nextId, clock + 1))

listCampaignsWhere(row, userId) == row.userId = userId

listCampaigns(context) ==
    IF ~requireUser(context) THEN Throw("UNAUTHORIZED")
    ELSE LET items == {c \in NewsletterCampaigns : listCampaignsWhere(c, context)}
         IN  Read(items, Cardinality(items))

(***************************************************************************)
(* Issues                                                                  *)
(***************************************************************************)
createIssueSchema(input) == NonEmpty(input, "campaignId") /\ NonEmpty(input, "subjectLine")

createIssueRow(userId, input) ==
    Values([id |-> UUID(nextId), campaignId |-> input.campaignId, userId |-> userId,
            subjectLine |-> input.subjectLine, createdAt |-> clock, updatedAt |-> clock],
           input, IssueOptional)

\* createIssue without its getOwnedCampaign call
createIssue_Unchecked(context, input) ==
    defineAction(createIssueSchema(input),
        IF ~requireUser(context) THEN Throw("UNAUTHORIZED")
        ELSE LET row == createIssueRow(context, input)
             IN  Outcome("OK", {row}, 0, NewsletterCampaigns,
                         NewsletterIssues \cup {row}, NewsletterBlocks,
                         nextId + 1, clock + 1))

createIssue(context, input) ==
    defineAction(createIssueSchema(input),
        IF ~requireUser(context) THEN Throw("UNAUTHORIZED")
        ELSE IF getOwnedCampaign(input.campaignId, context) = {} THEN Throw("NOT_FOUND")
        ELSE LET row == createIssueRow(context, input)
             IN  Outcome("OK", {row}, 0, NewsletterCampaigns,
                         NewsletterIssues \cup {row}, NewsletterBlocks,
                         nextId + 1, clock + 1))

updateIssueSchema(input) ==
    /\ NonEmpty(input, "id")
    /\ NonEmpty(input, "campaignId")
    /\ DOMAIN input \cap IssueMutable # {}

\* updateIssue's re-fetch by id alone
updateIssueExisting_ById(input, userId) == {i \in NewsletterIssues : i.id = input.id}

\* the re-fetch of the issue under its parent
updateIssueExisting(input, userId) ==
    {i \in NewsletterIssues :
        i.id = input.id /\ i.campaignId = input.campaignId /\ i.userId = userId}

updateIssueWhere(row, input) == row.id = input.id

updateIssueSet(input, now) == Assign(SetClause(input, IssueMutable), [updatedAt |-> now])

updateIssue(context, input) ==
    defineAction(updateIssueSchema(input),
        IF ~requireUser(context) THEN Throw("UNAUTHORIZED")
        ELSE IF getOwnedCampaign(input.campaignId, context) = {} THEN Throw("NOT_FOUND")
        ELSE IF updateIssueExisting(input, context) = {} THEN Throw("NOT_FOUND")
        ELSE LET hit == {i \in NewsletterIssues : updateIssueWhere(i, input)}
                 new == {Assign(i, updateIssueSet(input, clock)) : i \in hit}
             IN  Outcome("OK", new, 0, NewsletterCampaigns,
                         (NewsletterIssues \ hit) \cup new, NewsletterBlocks,
                         nextId, clock + 1))

listIssuesSchema(input) == NonEmpty(input, "campaignId")

\* listIssues selecting every issue of the user
listIssuesWhere_ByOwner(row, input, userId) == row.userId = userId

listIssuesWhere(row, input, userId) ==
    row.campaignId = input.campaignId /\ row.userId = userId

listIssues(context, input) ==
    defineAction(listIssuesSchema(input),
        IF ~requireUser(context) THEN Throw("UNAUTHORIZED")
        ELSE IF getOwnedCampaign(input.campaignId, context) = {} THEN Throw("NOT_FOUND")
        ELSE LET items == {i \in NewsletterIssues : listIssuesWhere(i, input, context)}
             IN  Read(items, Cardinality(items)))

(***************************************************************************)
(* Blocks                                                                  *)
(***************************************************************************)
\* const issue = await getOwnedIssue(...); await getOwnedCampaign(issue.campaignId, ...):
\* does the chain issue -> campaign resolve to the user
ownedChain(issueId, userId) ==
    /\ getOwnedIssue(issueId, userId) # {}
    /\ LET issue == CHOOSE i \in getOwnedIssue(issueId, userId) : TRUE
       IN  getOwnedCampaign(issue.campaignId, userId) # {}

createBlockSchema(input) == NonEmpty(input, "issueId")

\* input.orderIndex ?? 1
createBlockOrderIndex(input) ==
    IF "orderIndex" \in DOMAIN input THEN input.orderIndex ELSE 1

createBlockRow(input) ==
    Values([id |-> UUID(nextId), issueId |-> input.issueId,
            orderIndex |-> createBlockOrderIndex(input), createdAt |-> clock],
           input, BlockOptional)

createBlock(context, input) ==
    defineAction(createBlockSchema(input),
        IF ~requireUser(context) THEN Throw("UNAUTHORIZED")
        ELSE IF ~ownedChain(input.issueId, context) THEN Throw("NOT_FOUND")
        ELSE LET row == createBlockRow(input)
             IN  Outcome("OK", {row}, 0, NewsletterCampaigns, NewsletterIssues,
                         NewsletterBlocks \cup {row}, nextId + 1, clock + 1))

updateBlockSchema(input) ==
    /\ NonEmpty(input, "id")
    /\ NonEmpty(input, "issueId")
    /\ DOMAIN input \cap BlockMutable # {}

\* updateBlock's re-fetch by id alone
updateBlockExisting_ById(input) == {b \in NewsletterBlocks : b.id = input.id}

\* the re-fetch of the block under its parent
updateBlockExisting(input) ==
    {b \in NewsletterBlocks : b.id = input.id /\ b.issueId = input.issueId}

updateBlockWhere(row, input) == row.id = input.id

updateBlockSet(input) == SetClause(input, BlockMutable)

updateBlock(context, input) ==
    defineAction(updateBlockSchema(input),
        IF ~requireUser(context) THEN Throw("UNAUTHORIZED")
        ELSE IF ~ownedChain(input.issueId, context) THEN Throw("NOT_FOUND")
        ELSE IF updateBlockExisting(input) = {} THEN Throw("NOT_FOUND")
        ELSE LET hit == {b \in NewsletterBlocks : updateBlockWhere(b, input)}
                 new == {Assign(b, updateBlockSet(input)) : b \in hit}
             IN  Outcome("OK", new, 0, NewsletterCampaigns, NewsletterIssues,
                         (NewsletterBlocks \ hit) \cup new, nextId, clock))

deleteBlockSchema(input) == NonEmpty(input, "id") /\ NonEmpty(input, "issueId")

\* deleteBlock's DELETE by id alone
deleteBlockWhere_ById(row, input) == row.id = input.id

deleteBlockWhere(row, input) == row.id = input.id /\ row.issueId = input.issueId

deleteBlock(context, input) ==
    defineAction(deleteBlockSchema(input),
        IF ~requireUser(context) THEN Throw("UNAUTHORIZED")
        ELSE IF ~ownedChain(input.issueId, context) THEN Throw("NOT_FOUND")
        ELSE LET hit == {b \in NewsletterBlocks : deleteBlockWhere(b, input)}
             IN  IF Cardinality(hit) = 0
                 THEN Outcome("NOT_FOUND", {}, 0, NewsletterCampaigns, NewsletterIssues,
                              NewsletterBlocks \ hit, nextId, clock)
                 ELSE Outcome("OK", {}, 0, NewsletterCampaigns, NewsletterIssues,
                              NewsletterBlocks \ hit, nextId, clock))

listBlocksSchema(input) == NonEmpty(input, "issueId")

listBlocksWhere(row, input) == row.issueId = input.issueId

listBlocks(context, input) ==
    defineAction(listBlocksSchema(input),
        IF ~requireUser(context) THEN Throw("UNAUTHORIZED")
        ELSE IF ~ownedChain(input.issueId, context) THEN Throw("NOT_FOUND")
        ELSE LET items == {b \in NewsletterBlocks : listBlocksWhere(b, input)}
             IN  Read(items, Cardinality(items)))

(***************************************************************************)
(* The inputs a caller sends.  Ids range over every id handed out so far   *)
(* and one id that names no row; every other field over a few values,      *)
(* enough for each kind of key (required, optional, mutable) to be present *)
(* in one input and absent from another.  An input is well formed when its *)
(* schema accepts it; each set also holds inputs the schema rejects: a     *)
(* required key missing or empty, a patch with no mutable key.             *)
(***************************************************************************)
NoFields == [f \in {} |-> ""]

With(key, value, input) ==
    [f \in DOMAIN input \cup {key} |-> IF f = key THEN value ELSE input[f]]

\* UUID(nextId) has not been handed out: it names no row
Ids == {UUID(n) : n \in 1..nextId}

CampaignBodies ==
    {[name |-> "Weekly Dev Tips", description |-> "d", senderEmail |-> "e"],
     [name |-> ""],
     [description |-> "d"]}

CampaignPatches ==
    {[name |-> "Renamed", defaultLanguage |-> "en"],
     NoFields}

IssueBodies ==
    {[subjectLine |-> "Issue 1", issueNumber |-> 1, status |-> "draft"],
     [subjectLine |-> ""],
     [status |-> "draft"]}

IssuePatches ==
    {[status |-> "ready", preheaderText |-> "p"],
     NoFields}

BlockBodies ==
    {NoFields,
     [orderIndex |-> 3, heading |-> "h", body |-> "b"]}

BlockPatches ==
    {[heading |-> "Hi", orderIndex |-> 2],
     NoFields}

CreateCampaignInputs == CampaignBodies

UpdateCampaignInputs ==
    {With("id", id, p) : id \in Ids, p \in CampaignPatches}
    \cup {[name |-> "Renamed"], [id |-> "", name |-> "Renamed"],
          [id |-> UUID(1), name |-> ""]}

CreateIssueInputs ==
    {With("campaignId", c, b) : c \in Ids, b \in IssueBodies}
    \cup {[subjectLine |-> "Issue 1"], [campaignId |-> "", subjectLine |-> "Issue 1"]}

UpdateIssueInputs ==
    {With("id", id, With("campaignId", c, p)) : id \in Ids, c \in Ids, p \in IssuePatches}
    \cup {[id |-> UUID(1), status |-> "ready"], [campaignId |-> UUID(1), status |-> "ready"],
          [id |-> "", campaignId |-> UUID(1), status |-> "ready"]}

ListIssuesInputs ==
    {With("campaignId", c, NoFields) : c \in Ids} \cup {NoFields, [campaignId |-> ""]}

CreateBlockInputs ==
    {With("issueId", i, b) : i \in Ids, b \in BlockBodies}
    \cup {[heading |-> "h"], [issueId |-> "", heading |-> "h"]}

UpdateBlockInputs ==
    {With("id", id, With("issueId", i, p)) : id \in Ids, i \in Ids, p \in BlockPatches}
    \cup {[issueId |-> UUID(1), heading |-> "Hi"], [id |-> UUID(1), heading |-> "Hi"],
          [id |-> UUID(1), issueId |-> "", heading |-> "Hi"]}

DeleteBlockInputs ==
    {With("id", id, With("issueId", i, NoFields)) : id \in Ids, i \in Ids}
    \cup {[id |-> UUID(1)], [issueId |-> UUID(1)], [id |-> "", issueId |-> UUID(1)]}

ListBlocksInputs ==
    {With("issueId", i, NoFields) : i \in Ids} \cup {NoFields, [issueId |-> ""]}

(***************************************************************************)
(* The sequential specification: one request at a time                     *)
(***************************************************************************)
NoRequest == [op |-> "none", user |-> NoUser, input |-> NoFields, rows |-> {}]

Init ==
    /\ NewsletterCampaigns = {}
    /\ NewsletterIssues = {}
    /\ NewsletterBlocks = {}
    /\ nextId = 1
    /\ clock = 0
    /\ last = NoRequest
    /\ req = <<>>
    /\ lastWrite = <<>>

\* Serve one request: the tables become those its handler leaves.  `last` keeps
\* the latest request that changed a table, with the rows it returned.
Serve(op, context, input, out) ==
    /\ out.clock <= MaxClock
    /\ NewsletterCampaigns' = out.campaigns
    /\ NewsletterIssues' = out.issues
    /\ NewsletterBlocks' = out.blocks
    /\ nextId' = out.nextId
    /\ clock' = out.clock
    /\ last' = IF <<out.campaigns, out.issues, out.blocks>> # tables
               THEN [op |-> op, user |-> context, input |-> input, rows |-> out.rows]
               ELSE last
    /\ UNCHANGED <<req, lastWrite>>

CreateCampaign ==
    \E context \in Contexts, input \in CreateCampaignInputs :
        Serve("createCampaign", context, input, createCampaign(context, input))

UpdateCampaign ==
    \E context \in Contexts, input \in UpdateCampaignInputs :
        Serve("updateCampaign", context, input, updateCampaign(context, input))

ListCampaigns ==
    \E context \in Contexts :
        Serve("listCampaigns", context, NoFields, listCampaigns(context))

CreateIssue ==
    \E context \in Contexts, input \in CreateIssueInputs :
        Serve("createIssue", context, input, createIssue(context, input))

UpdateIssue ==
    \E context \in Contexts, input \in UpdateIssueInputs :
        Serve("updateIssue", context, input, updateIssue(context, input))

ListIssues ==
    \E context \in Contexts, input \in ListIssuesInputs :
        Serve("listIssues", context, input, listIssues(context, input))

CreateBlock ==
    \E context \in Contexts, input \in CreateBlockInputs :
        Serve("createBlock", context, input, createBlock(context, input))

UpdateBlock ==
    \E context \in Contexts, input \in UpdateBlockInputs :
        Serve("updateBlock", context, input, updateBlock(context, input))

DeleteBlock ==
    \E context \in Contexts, input \in DeleteBlockInputs :
        Serve("deleteBlock", context, input, deleteBlock(context, input))

ListBlocks ==
    \E context \in Contexts, input \in ListBlocksInputs :
        Serve("listBlocks", context, input, listBlocks(context, input))

Next ==
    \/ CreateCampaign
    \/ UpdateCampaign
    \/ ListCampaigns
    \/ CreateIssue
    \/ UpdateIssue
    \/ ListIssues
    \/ CreateBlock
    \/ UpdateBlock
    \/ DeleteBlock
    \/ ListBlocks

Spec == Init /\ [][Next]_vars

(***************************************************************************)
(* The concurrent specification.  A handler is a sequence of awaited       *)
(* database round trips; each round trip is one step, and the steps of the *)
(* requests in flight on different connections interleave freely.  What a  *)
(* handler does before its first round trip (the schema, requireUser) and  *)
(* between two round trips (new Date(), randomUUID(), building the         *)
(* statement) touches no shared state and is part of the step that         *)
(* follows.  The three list procedures only read and end the request; they *)
(* are left out here.                                                      *)
(***************************************************************************)
Connections == {"conn1", "conn2"}

Idle == [pc |-> "idle"]

\* the round trips of each procedure, in order
Steps(op) ==
    CASE op = "createCampaign" -> <<"insert">>
      [] op = "updateCampaign" -> <<"getOwnedCampaign", "update">>
      [] op = "createIssue"    -> <<"getOwnedCampaign", "insert">>
      [] op = "updateIssue"    -> <<"getOwnedCampaign", "existing", "update">>
      [] op = "createBlock"    -> <<"getOwnedIssue", "getOwnedCampaign", "insert">>
      [] op = "updateBlock"    ->
            <<"getOwnedIssue", "getOwnedCampaign", "existing", "update">>
      [] op = "deleteBlock"    -> <<"getOwnedIssue", "getOwnedCampaign", "delete">>

\* The requests a caller can start.  The ids it sends are those of rows of the right
\* table, its own or another user's (an id of no row, or of a row of another table,
\* ends the request at its first lookup, as in the sequential specification); one
\* request is malformed.
CampaignIds == {c.id : c \in NewsletterCampaigns}

IssueIds == {i.id : i \in NewsletterIssues}

BlockIds == {b.id : b \in NewsletterBlocks}

ConcRequests ==
    {[op |-> "createCampaign", input |-> i] :
        i \in {[name |-> "Weekly Dev Tips", description |-> "d"], [name |-> ""]}}
    \cup {[op |-> "updateCampaign", input |-> [id |-> id, name |-> "Renamed"]] :
            id \in CampaignIds}
    \cup {[op |-> "createIssue", input |-> [campaignId |-> c, subjectLine |-> "Issue 1"]] :
            c \in CampaignIds}
    \cup {[op |-> "updateIssue",
           input |-> [id |-> id, campaignId |-> c, status |-> "ready"]] :
            id \in IssueIds, c \in CampaignIds}
    \cup {[op |-> "createBlock", input |-> [issueId |-> i, body |-> "b"]] :
            i \in IssueIds}
    \cup {[op |-> "updateBlock", input |-> [id |-> id, issueId |-> i, heading |-> "Hi"]] :
            id \in BlockIds, i \in IssueIds}
    \cup {[op |-> "deleteBlock", input |-> [id |-> id, issueId |-> i]] :
            id \in BlockIds, i \in IssueIds}

Schema(op, input) ==
    CASE op = "createCampaign" -> createCampaignSchema(input)
      [] op = "updateCampaign" -> updateCampaignSchema(input)
      [] op = "createIssue"    -> createIssueSchema(input)
      [] op = "updateIssue"    -> updateIssueSchema(input)
      [] op = "createBlock"    -> createBlockSchema(input)
      [] op = "updateBlock"    -> updateBlockSchema(input)
      [] op = "deleteBlock"    -> deleteBlockSchema(input)

\* The requests that can take a round trip on `conn`: the one in flight, or, on an
\* idle connection, a request that arrives, passes its schema and carries a user; its
\* first round trip runs.
Running(conn) ==
    IF req[conn] # Idle THEN {req[conn]}
    ELSE {[pc |-> "running", op |-> q.op, user |-> context, input |-> q.input,
           at |-> 1, campaignId |-> ""] :
            q \in {x \in ConcRequests : Schema(x.op, x.input)},
            context \in {c \in Contexts : requireUser(c)}}

\* the request of `conn` after a round trip that did not throw
Advance(conn, r) ==
    req' = [req EXCEPT ![conn] =
              IF r.at = Len(Steps(r.op)) THEN Idle ELSE [r EXCEPT !.at = r.at + 1]]

\* the request of `conn` is over: it threw, or it returned
Over(conn) == req' = [req EXCEPT ![conn] = Idle]

Statement(r) == Steps(r.op)[r.at]

\* await getOwnedCampaign(id, user.id), the id being input.id (updateCampaign),
\* input.campaignId (issues) or issue.campaignId (blocks)
DoGetOwnedCampaign(conn) == \E r \in Running(conn) :
    /\ Statement(r) = "getOwnedCampaign"
    /\ LET id == IF r.op = "updateCampaign" THEN r.input.id
                 ELSE IF r.op \in {"createIssue", "updateIssue"} THEN r.input.campaignId
                 ELSE r.campaignId
       IN  IF getOwnedCampaign(id, r.user) = {} THEN Over(conn) ELSE Advance(conn, r)
    /\ UNCHANGED <<tables, nextId, clock, last, lastWrite>>

\* const issue = await getOwnedIssue(input.issueId, user.id)
DoGetOwnedIssue(conn) == \E r \in Running(conn) :
    /\ Statement(r) = "getOwnedIssue"
    /\ LET found == getOwnedIssue(r.input.issueId, r.user)
       IN  IF found = {} THEN Over(conn)
           ELSE Advance(conn, [r EXCEPT !.campaignId =
                                  (CHOOSE i \in found : TRUE).campaignId])
    /\ UNCHANGED <<tables, nextId, clock, last, lastWrite>>

\* const [existing] = await db.select()... of updateIssue and updateBlock
DoExisting(conn) == \E r \in Running(conn) :
    /\ Statement(r) = "existing"
    /\ LET existing == IF r.op = "updateIssue" THEN updateIssueExisting(r.input, r.user)
                       ELSE updateBlockExisting(r.input)
       IN  IF existing = {} THEN Over(conn) ELSE Advance(conn, r)
    /\ UNCHANGED <<tables, nextId, clock, last, lastWrite>>

\* await db.insert(...).values({...}).returning()
DoInsert(conn) == \E r \in Running(conn) :
    /\ Statement(r) = "insert"
    /\ clock < MaxClock
    /\ \/ /\ r.op = "createCampaign"
          /\ NewsletterCampaigns' =
                NewsletterCampaigns \cup {createCampaignRow(r.user, r.input)}
          /\ UNCHANGED <<NewsletterIssues, NewsletterBlocks>>
       \/ /\ r.op = "createIssue"
          /\ NewsletterIssues' = NewsletterIssues \cup {createIssueRow(r.user, r.input)}
          /\ UNCHANGED <<NewsletterCampaigns, NewsletterBlocks>>
       \/ /\ r.op = "createBlock"
          /\ NewsletterBlocks' = NewsletterBlocks \cup {createBlockRow(r.input)}
          /\ UNCHANGED <<NewsletterCampaigns, NewsletterIssues>>
    /\ nextId' = nextId + 1
    /\ clock' = clock + 1
    /\ Over(conn)
    /\ UNCHANGED <<last, lastWrite>>

\* what the handler answers after its UPDATE or DELETE: the code, and the rows in
\* `data` (none when `const [row]` found the statement's result empty)
Written(r, returned, code) == [op |-> r.op, returned |-> returned, code |-> code]

\* const [row] = await db.update(...).set({...}).where(...).returning();
\* return { success: true, data: { row } }
DoUpdate(conn) == \E r \in Running(conn) :
    /\ Statement(r) = "update"
    /\ \/ /\ r.op = "updateCampaign"
          /\ clock < MaxClock
          /\ LET hit == {c \in NewsletterCampaigns : updateCampaignWhere(c, r.input)}
                 new == {Assign(c, updateCampaignSet(r.input, clock)) : c \in hit}
             IN  /\ NewsletterCampaigns' = (NewsletterCampaigns \ hit) \cup new
                 /\ lastWrite' = Written(r, new, "OK")
          /\ clock' = clock + 1
          /\ UNCHANGED <<NewsletterIssues, NewsletterBlocks>>
       \/ /\ r.op = "updateIssue"
          /\ clock < MaxClock
          /\ LET hit == {i \in NewsletterIssues : updateIssueWhere(i, r.input)}
                 new == {Assign(i, updateIssueSet(r.input, clock)) : i \in hit}
             IN  /\ NewsletterIssues' = (NewsletterIssues \ hit) \cup new
                 /\ lastWrite' = Written(r, new, "OK")
          /\ clock' = clock + 1
          /\ UNCHANGED <<NewsletterCampaigns, NewsletterBlocks>>
       \/ /\ r.op = "updateBlock"
          /\ LET hit == {b \in NewsletterBlocks : updateBlockWhere(b, r.input)}
                 new == {Assign(b, updateBlockSet(r.input)) : b \in hit}
             IN  /\ NewsletterBlocks' = (NewsletterBlocks \ hit) \cup new
                 /\ lastWrite' = Written(r, new, "OK")
          /\ UNCHANGED <<NewsletterCampaigns, NewsletterIssues, clock>>
    /\ Over(conn)
    /\ UNCHANGED <<nextId, last>>

\* const result = await db.delete(...).where(...);
\* if (result.rowsAffected === 0) throw NOT_FOUND; return { success: true }
DoDelete(conn) == \E r \in Running(conn) :
    /\ Statement(r) = "delete"
    /\ LET hit == {b \in NewsletterBlocks : deleteBlockWhere(b, r.input)}
       IN  /\ NewsletterBlocks' = NewsletterBlocks \ hit
           /\ lastWrite' =
                 Written(r, {}, IF Cardinality(hit) = 0 THEN "NOT_FOUND" ELSE "OK")
    /\ Over(conn)
    /\ UNCHANGED <<NewsletterCampaigns, NewsletterIssues, nextId, clock, last>>

\* A request arrives on an idle connection and ends before any round trip: its input
\* fails the schema, or its context carries no user.
Reject(conn) ==
    /\ req[conn] = Idle
    /\ \E context \in Contexts, q \in ConcRequests :
          ~Schema(q.op, q.input) \/ ~requireUser(context)
    /\ UNCHANGED vars

NextConc ==
    \E conn \in Connections :
        \/ Reject(conn)
        \/ DoGetOwnedCampaign(conn)
        \/ DoGetOwnedIssue(conn)
        \/ DoExisting(conn)
        \/ DoInsert(conn)
        \/ DoUpdate(conn)
        \/ DoDelete(conn)

InitReq ==
    /\ NewsletterCampaigns = {}
    /\ NewsletterIssues = {}
    /\ NewsletterBlocks = {}
    /\ nextId = 1
    /\ clock = 0
    /\ last = NoRequest
    /\ req = [conn \in Connections |-> Idle]
    /\ lastWrite = Written([op |-> "none"], {}, "OK")

SpecConc == InitReq /\ [][NextConc]_vars

(***************************************************************************)
(* Properties of the sequential specification.  Each one is stated for     *)
(* every request a caller can send in the current state.                   *)
(***************************************************************************)
\* the outcome is the error `code` and leaves all three tables as they are
Rejected(out, code) ==
    /\ out.code = code
    /\ out.campaigns = NewsletterCampaigns
    /\ out.issues = NewsletterIssues
    /\ out.blocks = NewsletterBlocks

OwnsCampaign(user, id) == \E c \in NewsletterCampaigns : c.id = id /\ c.userId = user

OwnsIssue(user, id) == \E i \in NewsletterIssues : i.id = id /\ i.userId = user

\* C1: a call with well-formed input and no authenticated user fails with
\* UNAUTHORIZED and leaves the campaign, issue and block tables unchanged, for
\* each of the ten operations and whatever the tables hold.
C1_UnauthenticatedRejected ==
    /\ \A input \in CreateCampaignInputs : createCampaignSchema(input)
          => Rejected(createCampaign(NoUser, input), "UNAUTHORIZED")
    /\ \A input \in UpdateCampaignInputs : updateCampaignSchema(input)
          => Rejected(updateCampaign(NoUser, input), "UNAUTHORIZED")
    /\ Rejected(listCampaigns(NoUser), "UNAUTHORIZED")
    /\ \A input \in CreateIssueInputs : createIssueSchema(input)
          => Rejected(createIssue(NoUser, input), "UNAUTHORIZED")
    /\ \A input \in UpdateIssueInputs : updateIssueSchema(input)
          => Rejected(updateIssue(NoUser, input), "UNAUTHORIZED")
    /\ \A input \in ListIssuesInputs : listIssuesSchema(input)
          => Rejected(listIssues(NoUser, input), "UNAUTHORIZED")
    /\ \A input \in CreateBlockInputs : createBlockSchema(input)
          => Rejected(createBlock(NoUser, input), "UNAUTHORIZED")
    /\ \A input \in UpdateBlockInputs : updateBlockSchema(input)
          => Rejected(updateBlock(NoUser, input), "UNAUTHORIZED")
    /\ \A input \in DeleteBlockInputs : deleteBlockSchema(input)
          => Rejected(deleteBlock(NoUser, input), "UNAUTHORIZED")
    /\ \A input \in ListBlocksInputs : listBlocksSchema(input)
          => Rejected(listBlocks(NoUser, input), "UNAUTHORIZED")

\* C1 witness: all three tables hold rows, and an unauthenticated deleteBlock that
\* names an existing block under its own issue is refused.
C1_Witness ==
    /\ NewsletterCampaigns # {} /\ NewsletterIssues # {}
    /\ \E b \in NewsletterBlocks :
          deleteBlock(NoUser, [id |-> b.id, issueId |-> b.issueId]).code = "UNAUTHORIZED"

\* C2: an authenticated user who sends well-formed input naming a campaign or an
\* issue that does not exist or belongs to another user gets NOT_FOUND (both cases
\* alike), and no row of any table is created, changed or deleted.
C2_NotOwnedIsNotFound ==
    \A user \in Users :
      /\ \A input \in UpdateCampaignInputs :
            updateCampaignSchema(input) /\ ~OwnsCampaign(user, input.id)
            => Rejected(updateCampaign(user, input), "NOT_FOUND")
      /\ \A input \in CreateIssueInputs :
            createIssueSchema(input) /\ ~OwnsCampaign(user, input.campaignId)
            => Rejected(createIssue(user, input), "NOT_FOUND")
      /\ \A input \in UpdateIssueInputs :
            /\ updateIssueSchema(input)
            /\ ~OwnsCampaign(user, input.campaignId) \/ ~OwnsIssue(user, input.id)
            => Rejected(updateIssue(user, input), "NOT_FOUND")
      /\ \A input \in ListIssuesInputs :
            listIssuesSchema(input) /\ ~OwnsCampaign(user, input.campaignId)
            => Rejected(listIssues(user, input), "NOT_FOUND")
      /\ \A input \in CreateBlockInputs :
            createBlockSchema(input) /\ ~OwnsIssue(user, input.issueId)
            => Rejected(createBlock(user, input), "NOT_FOUND")
      /\ \A input \in UpdateBlockInputs :
            updateBlockSchema(input) /\ ~OwnsIssue(user, input.issueId)
            => Rejected(updateBlock(user, input), "NOT_FOUND")
      /\ \A input \in DeleteBlockInputs :
            deleteBlockSchema(input) /\ ~OwnsIssue(user, input.issueId)
            => Rejected(deleteBlock(user, input), "NOT_FOUND")
      /\ \A input \in ListBlocksInputs :
            listBlocksSchema(input) /\ ~OwnsIssue(user, input.issueId)
            => Rejected(listBlocks(user, input), "NOT_FOUND")

\* C2 witness: user B sends updateCampaign with user A's campaign id, and deleteBlock
\* for A's block under A's issue; B also sends an id that names no row.
C2_Witness ==
    \E a \in Users, b \in Users :
      /\ a # b
      /\ \E c \in NewsletterCampaigns :
            /\ c.userId = a
            /\ updateCampaign(b, [id |-> c.id, name |-> "Renamed"]).code = "NOT_FOUND"
      /\ \E k \in NewsletterBlocks :
            /\ OwnsIssue(a, k.issueId)
            /\ deleteBlock(b, [id |-> k.id, issueId |-> k.issueId]).code = "NOT_FOUND"
      /\ updateCampaign(b, [id |-> UUID(nextId), name |-> "Renamed"]).code = "NOT_FOUND"

\* the row of `table` with this id, as a set
RowsWithId(table, id) == {r \in table : r.id = id}

\* `new` is `old` with the keys of `input` among `mutable` set to the values
\* supplied, the columns of `refreshed` free to change, and every other column
\* (NULL ones too) as it was
Patched(old, new, input, mutable, refreshed) ==
    /\ DOMAIN new = DOMAIN old \cup (DOMAIN input \cap mutable) \cup refreshed
    /\ \A f \in DOMAIN input \cap mutable : new[f] = input[f]
    /\ \A f \in DOMAIN old \ ((DOMAIN input \cap mutable) \cup refreshed) : new[f] = old[f]

\* a successful update of `table` into `after`: one row with the given id, patched;
\* every other row as it was
UpdatedOnly(table, after, input, mutable, refreshed) ==
    /\ {r \in table : r.id # input.id} = {r \in after : r.id # input.id}
    /\ Cardinality(RowsWithId(table, input.id)) = 1
    /\ Cardinality(RowsWithId(after, input.id)) = 1
    /\ \A old \in RowsWithId(table, input.id), new \in RowsWithId(after, input.id) :
          Patched(old, new, input, mutable, refreshed)

\* C3: a successful updateCampaign, updateIssue or updateBlock changes only the row
\* with the given id; in it, the mutable fields present in the input take the
\* supplied values, updatedAt may change (campaigns and issues), and every absent
\* mutable field and id, userId, campaignId/issueId and createdAt keep their values;
\* every other row of every table is unchanged.
C3_PartialUpdateFrame ==
    \A user \in Users :
      /\ \A input \in UpdateCampaignInputs :
            LET out == updateCampaign(user, input)
            IN  out.code = "OK" =>
                  /\ UpdatedOnly(NewsletterCampaigns, out.campaigns, input,
                                 CampaignMutable, {"updatedAt"})
                  /\ out.issues = NewsletterIssues /\ out.blocks = NewsletterBlocks
      /\ \A input \in UpdateIssueInputs :
            LET out == updateIssue(user, input)
            IN  out.code = "OK" =>
                  /\ UpdatedOnly(NewsletterIssues, out.issues, input,
                                 IssueMutable, {"updatedAt"})
                  /\ out.campaigns = NewsletterCampaigns /\ out.blocks = NewsletterBlocks
      /\ \A input \in UpdateBlockInputs :
            LET out == updateBlock(user, input)
            IN  out.code = "OK" =>
                  /\ UpdatedOnly(NewsletterBlocks, out.blocks, input, BlockMutable, {})
                  /\ out.campaigns = NewsletterCampaigns /\ out.issues = NewsletterIssues

\* C3 witness: updateBlock has just patched heading and orderIndex of a block whose
\* body was set and whose ctaUrl was NULL, and a campaign updated after its creation
\* still has the description it was created with.
C3_Witness ==
    /\ last.op = "updateBlock"
    /\ \E b \in last.rows :
          /\ b \in NewsletterBlocks
          /\ b.heading = "Hi" /\ "body" \in DOMAIN b /\ "ctaUrl" \notin DOMAIN b
    /\ \E c \in NewsletterCampaigns : c.updatedAt > c.createdAt /\ c.description = "d"

AllIds ==
    {r.id : r \in NewsletterCampaigns} \cup {r.id : r \in NewsletterIssues}
    \cup {r.id : r \in NewsletterBlocks}

UniqueIds(table) == \A r1 \in table, r2 \in table : r1.id = r2.id => r1 = r2

\* a successful create: `after` is `table` plus the one row returned, whose id no
\* row of any table has and none ever had
AddsOneFreshRow(table, after, out) ==
    /\ Cardinality(out.rows) = 1
    /\ out.rows \cap table = {}
    /\ after = table \cup out.rows
    /\ \A r \in out.rows : r.id \notin AllIds \cup {UUID(n) : n \in 1..(nextId - 1)}

\* C4: ids are unique within each table, every issue references an existing
\* campaign whose userId equals the issue's userId, and every block references an
\* existing issue; each successful create adds exactly one row, whose id was not in
\* use and whose owner is the calling user.
C4_FreshIdsAndOwnershipChain ==
    /\ UniqueIds(NewsletterCampaigns) /\ UniqueIds(NewsletterIssues)
    /\ UniqueIds(NewsletterBlocks)
    /\ \A i \in NewsletterIssues :
          \E c \in NewsletterCampaigns : c.id = i.campaignId /\ c.userId = i.userId
    /\ \A b \in NewsletterBlocks : \E i \in NewsletterIssues : i.id = b.issueId
    /\ \A user \in Users :
          /\ \A input \in CreateCampaignInputs :
                LET out == createCampaign(user, input)
                IN  out.code = "OK" =>
                      /\ AddsOneFreshRow(NewsletterCampaigns, out.campaigns, out)
                      /\ \A r \in out.rows : r.userId = user
                      /\ out.issues = NewsletterIssues /\ out.blocks = NewsletterBlocks
          /\ \A input \in CreateIssueInputs :
                LET out == createIssue(user, input)
                IN  out.code = "OK" =>
                      /\ AddsOneFreshRow(NewsletterIssues, out.issues, out)
                      /\ \A r \in out.rows :
                            /\ r.userId = user
                            /\ r.campaignId = input.campaignId
                            /\ \E c \in NewsletterCampaigns :
                                  c.id = r.campaignId /\ c.userId = user
                      /\ out.campaigns = NewsletterCampaigns
                      /\ out.blocks = NewsletterBlocks
          /\ \A input \in CreateBlockInputs :
                LET out == createBlock(user, input)
                IN  out.code = "OK" =>
                      /\ AddsOneFreshRow(NewsletterBlocks, out.blocks, out)
                      /\ \A r \in out.rows :
                            /\ r.issueId = input.issueId
                            /\ \E i \in NewsletterIssues, c \in NewsletterCampaigns :
                                  /\ i.id = r.issueId /\ i.userId = user
                                  /\ c.id = i.campaignId /\ c.userId = user
                      /\ out.campaigns = NewsletterCampaigns
                      /\ out.issues = NewsletterIssues

\* C4 witness: both users own a campaign, one of them with an issue and a block under
\* it, and the block was the row created last.
C4_Witness ==
    /\ \A user \in Users : \E c \in NewsletterCampaigns : c.userId = user
    /\ last.op = "createBlock"
    /\ \E b \in last.rows, i \in NewsletterIssues :
          b \in NewsletterBlocks /\ i.id = b.issueId /\ i.userId = last.user

\* the blocks a deleteBlock input names: that id under that issue
Named(input) == {b \in NewsletterBlocks : b.id = input.id /\ b.issueId = input.issueId}

\* C5 (in each state): for the owner of the issue, deleteBlock with a block id that
\* names no block under that issue (never created, already deleted, or under another
\* issue) fails with NOT_FOUND and deletes nothing; when it succeeds, exactly the
\* block with that id under that issue is removed and no other row changes.
C5_DeleteOutcome ==
    \A user \in Users : \A input \in DeleteBlockInputs :
        LET out == deleteBlock(user, input)
        IN  /\ deleteBlockSchema(input) /\ OwnsIssue(user, input.issueId)
               /\ Named(input) = {}
               => Rejected(out, "NOT_FOUND")
            /\ out.code = "OK" =>
                  /\ Cardinality(Named(input)) = 1
                  /\ out.blocks = NewsletterBlocks \ Named(input)
                  /\ out.campaigns = NewsletterCampaigns
                  /\ out.issues = NewsletterIssues

\* C5 (in each step): after a deleteBlock that succeeded, the same request again
\* yields NOT_FOUND.
C5_SecondDelete ==
    (NewsletterBlocks' # NewsletterBlocks /\ last'.op = "deleteBlock")
        => (deleteBlock(last.user, last.input).code = "NOT_FOUND")'

\* C5: deleteBlock never reports success without removing a block.
C5_DeleteNeverSilent == [](C5_DeleteOutcome) /\ [][C5_SecondDelete]_vars

\* C5 witness: a block has just been deleted; the same request again, and the same
\* block id under another issue of the same user, both yield NOT_FOUND.
C5_Witness ==
    /\ last.op = "deleteBlock"
    /\ NewsletterBlocks = {}
    /\ deleteBlock(last.user, last.input).code = "NOT_FOUND"
    /\ \E i \in NewsletterIssues :
          /\ i.id # last.input.issueId /\ i.userId = last.user
          /\ deleteBlock(last.user, [id |-> last.input.id, issueId |-> i.id]).code
                = "NOT_FOUND"

\* C6 (in each state): a list returns exactly the rows in scope, with total the
\* number of items: listCampaigns the campaigns owned by the caller, listIssues the
\* issues of the given campaign, listBlocks the blocks of the given issue, whenever
\* the caller owns that campaign or issue.
C6_ListScope ==
    \A user \in Users :
      /\ LET out == listCampaigns(user)
         IN  /\ out.code = "OK"
             /\ out.rows = {c \in NewsletterCampaigns : c.userId = user}
             /\ out.total = Cardinality(out.rows)
      /\ \A input \in ListIssuesInputs :
            listIssuesSchema(input) /\ OwnsCampaign(user, input.campaignId) =>
              LET out == listIssues(user, input)
              IN  /\ out.code = "OK"
                  /\ out.rows = {i \in NewsletterIssues : i.campaignId = input.campaignId}
                  /\ out.total = Cardinality(out.rows)
      /\ \A input \in ListBlocksInputs :
            listBlocksSchema(input) /\ OwnsIssue(user, input.issueId) =>
              LET out == listBlocks(user, input)
              IN  /\ out.code = "OK"
                  /\ out.rows = {b \in NewsletterBlocks : b.issueId = input.issueId}
                  /\ out.total = Cardinality(out.rows)

\* C6 (in each step): after a createBlock on an issue that had no block, listBlocks
\* of that issue reports total 1; after the deleteBlock of the only block of an
\* issue, it reports total 0.
C6_ListAfterWrite ==
    LET before == {b \in NewsletterBlocks : b.issueId = last'.input.issueId}
        listed == listBlocks(last.user, [issueId |-> last.input.issueId])
    IN  /\ (NewsletterBlocks' # NewsletterBlocks /\ last'.op = "createBlock"
            /\ before = {})
               => (listed.code = "OK" /\ listed.total = 1)'
        /\ (NewsletterBlocks' # NewsletterBlocks /\ last'.op = "deleteBlock"
            /\ Cardinality(before) = 1)
               => (listed.code = "OK" /\ listed.total = 0)'

\* C6: each list operation returns exactly the rows in scope and nothing else.
C6_ListsExact == [](C6_ListScope) /\ [][C6_ListAfterWrite]_vars

\* C6 witness: the only block of an issue has just been deleted and listBlocks of the
\* issue reports total 0, while the other user owns a campaign that listCampaigns
\* leaves out.
C6_Witness ==
    /\ last.op = "deleteBlock"
    /\ listBlocks(last.user, [issueId |-> last.input.issueId]).total = 0
    /\ listCampaigns(last.user).total = 1
    /\ Cardinality(NewsletterCampaigns) = 2

\* C7 as stated: a call with no authenticated user and malformed or incomplete input
\* is rejected with UNAUTHORIZED, not with a validation error.
C7_AuthBeforeValidation ==
    /\ \A input \in CreateCampaignInputs : ~createCampaignSchema(input)
          => createCampaign(NoUser, input).code = "UNAUTHORIZED"
    /\ \A input \in UpdateCampaignInputs : ~updateCampaignSchema(input)
          => updateCampaign(NoUser, input).code = "UNAUTHORIZED"
    /\ \A input \in CreateIssueInputs : ~createIssueSchema(input)
          => createIssue(NoUser, input).code = "UNAUTHORIZED"
    /\ \A input \in UpdateIssueInputs : ~updateIssueSchema(input)
          => updateIssue(NoUser, input).code = "UNAUTHORIZED"
    /\ \A input \in ListIssuesInputs : ~listIssuesSchema(input)
          => listIssues(NoUser, input).code = "UNAUTHORIZED"
    /\ \A input \in CreateBlockInputs : ~createBlockSchema(input)
          => createBlock(NoUser, input).code = "UNAUTHORIZED"
    /\ \A input \in UpdateBlockInputs : ~updateBlockSchema(input)
          => updateBlock(NoUser, input).code = "UNAUTHORIZED"
    /\ \A input \in DeleteBlockInputs : ~deleteBlockSchema(input)
          => deleteBlock(NoUser, input).code = "UNAUTHORIZED"
    /\ \A input \in ListBlocksInputs : ~listBlocksSchema(input)
          => listBlocks(NoUser, input).code = "UNAUTHORIZED"

\* a required key is missing or empty
Lacks(input, key) == key \notin DOMAIN input \/ input[key] = ""

\* C7 as amended: input validation comes before authentication.  A call whose input
\* misses a required field, has an empty required string or is an update with no
\* mutable field is rejected with a validation error (BAD_REQUEST) whether or not it
\* carries an authenticated user, and changes no table; authentication is the first
\* step of the handler, so without a user a well-formed update is rejected with
\* UNAUTHORIZED even when the ids it names do not exist.
C7_ValidationBeforeAuth ==
    /\ \A context \in Contexts :
          /\ \A input \in CreateCampaignInputs : Lacks(input, "name")
                => Rejected(createCampaign(context, input), "BAD_REQUEST")
          /\ \A input \in UpdateCampaignInputs :
                Lacks(input, "id") \/ DOMAIN input \cap CampaignMutable = {}
                => Rejected(updateCampaign(context, input), "BAD_REQUEST")
          /\ \A input \in CreateIssueInputs :
                Lacks(input, "campaignId") \/ Lacks(input, "subjectLine")
                => Rejected(createIssue(context, input), "BAD_REQUEST")
          /\ \A input \in UpdateIssueInputs :
                \/ Lacks(input, "id") \/ Lacks(input, "campaignId")
                \/ DOMAIN input \cap IssueMutable = {}
                => Rejected(updateIssue(context, input), "BAD_REQUEST")
          /\ \A input \in ListIssuesInputs : Lacks(input, "campaignId")
                => Rejected(listIssues(context, input), "BAD_REQUEST")
          /\ \A input \in CreateBlockInputs : Lacks(input, "issueId")
                => Rejected(createBlock(context, input), "BAD_REQUEST")
          /\ \A input \in UpdateBlockInputs :
                \/ Lacks(input, "id") \/ Lacks(input, "issueId")
                \/ DOMAIN input \cap BlockMutable = {}
                => Rejected(updateBlock(context, input), "BAD_REQUEST")
          /\ \A input \in DeleteBlockInputs :
                Lacks(input, "id") \/ Lacks(input, "issueId")
                => Rejected(deleteBlock(context, input), "BAD_REQUEST")
          /\ \A input \in ListBlocksInputs : Lacks(input, "issueId")
                => Rejected(listBlocks(context, input), "BAD_REQUEST")
    /\ updateCampaign(NoUser, [id |-> UUID(nextId), name |-> "Renamed"]).code
          = "UNAUTHORIZED"
    /\ updateBlock(NoUser, [id |-> UUID(nextId), issueId |-> UUID(nextId),
                            heading |-> "Hi"]).code = "UNAUTHORIZED"

\* C7 witness: a campaign and a block exist, and an unauthenticated updateCampaign
\* and updateBlock that name them with no mutable field get the validation error.
C7_Witness ==
    /\ \E c \in NewsletterCampaigns :
          updateCampaign(NoUser, [id |-> c.id]).code = "BAD_REQUEST"
    /\ \E b \in NewsletterBlocks :
          updateBlock(NoUser, [id |-> b.id, issueId |-> b.issueId]).code = "BAD_REQUEST"

\* C8: an update reaches only a child under the parent the input names.  updateIssue
\* with a campaignId the caller owns and the id of an issue of another campaign (even
\* one the caller also owns), and updateBlock with an issueId the caller owns and the
\* id of a block of another issue, fail with NOT_FOUND and change no row.
C8_UpdateUnderExactParent ==
    \A user \in Users :
      /\ \A input \in UpdateIssueInputs :
            /\ updateIssueSchema(input)
            /\ OwnsCampaign(user, input.campaignId)
            /\ \E i \in NewsletterIssues :
                  i.id = input.id /\ i.campaignId # input.campaignId
            => Rejected(updateIssue(user, input), "NOT_FOUND")
      /\ \A input \in UpdateBlockInputs :
            /\ updateBlockSchema(input)
            /\ OwnsIssue(user, input.issueId)
            /\ \E b \in NewsletterBlocks : b.id = input.id /\ b.issueId # input.issueId
            => Rejected(updateBlock(user, input), "NOT_FOUND")

\* C8 witness: one user owns two issues and a block under one of them, and
\* updateBlock naming that block under the other issue yields NOT_FOUND.
C8_Witness ==
    \E b \in NewsletterBlocks, i \in NewsletterIssues, user \in Users :
      /\ i.id # b.issueId
      /\ OwnsIssue(user, i.id) /\ OwnsIssue(user, b.issueId)
      /\ updateBlock(user, [id |-> b.id, issueId |-> i.id, heading |-> "Hi"]).code
            = "NOT_FOUND"

(***************************************************************************)
(* Properties of the concurrent specification                              *)
(***************************************************************************)
\* the users an issue's, and a block's, chain of parents resolves to
IssueOwners(i) == {c.userId : c \in {x \in NewsletterCampaigns : x.id = i.campaignId}}

BlockOwners(b) ==
    UNION {IssueOwners(i) : i \in {x \in NewsletterIssues : x.id = b.issueId}}

\* the request in flight on `conn` executes its UPDATE or DELETE in this step
Writes(conn) ==
    /\ req[conn] # Idle
    /\ Statement(req[conn]) \in {"update", "delete"}
    /\ req'[conn] = Idle

Mutable(op) ==
    CASE op = "updateCampaign" -> CampaignMutable
      [] op = "updateIssue"    -> IssueMutable
      [] op = "updateBlock"    -> BlockMutable

\* C10: an update that answers success returns the updated row: a row that is in the
\* store with the given id and carries the patched values, also when its round trips
\* interleave with other requests of the same user.
C10_UpdateReturnsRow ==
    [][\A conn \in Connections :
          Writes(conn) /\ Statement(req[conn]) = "update" /\ lastWrite'.code = "OK" =>
            /\ lastWrite'.returned # {}
            /\ \A row \in lastWrite'.returned :
                  /\ row.id = req[conn].input.id
                  /\ row \in NewsletterCampaigns' \cup NewsletterIssues'
                             \cup NewsletterBlocks'
                  /\ \A f \in DOMAIN req[conn].input \cap Mutable(req[conn].op) :
                        row[f] = req[conn].input[f]]_vars

=============================================================================
